---- MODULE Spec2Model ----
(***************************************************************************)
(* Model of backend/server.js: the Lego builder API.  Two collections      *)
(* (User, Build) in a document store, and five request handlers: signup,   *)
(* login, save, history, load.  signup is split at its awaits (findOne,    *)
(* bcrypt.hash, save) so that concurrent signups interleave as they do on  *)
(* the event loop.  login only reads User documents, which are never       *)
(* changed or removed once stored, and save, history and load make one     *)
(* store call each, so each of these handlers is one action.               *)
(***************************************************************************)
EXTENDS Integers, Sequences, FiniteSets, TLC

VARIABLES users,     \* the User collection, in insertion order
          builds,    \* the Build collection, in insertion order
          nextOid,   \* ObjectId generator: the next id handed out
          clock,     \* Date.now()
          procs,     \* the signup requests in flight, one record per slot
          req,       \* the request answered last
          resp,      \* the response sent to req
          signedUp,  \* history: the signups answered with success
          saved      \* history: the saves answered with success

vars == <<users, builds, nextOid, clock, procs, req, resp, signedUp, saved>>

----------------------------------------------------------------------------
(* Bounds of the model *)

MaxOid == 4      \* ObjectIds handed out in one behaviour
MaxUserOid == 2  \* the last ObjectId a User document may take
MaxClock == 1    \* the clock runs from 0 to MaxClock

HISTORY_LIMIT == 10
MIN_USERNAME == 3
MIN_PASSWORD == 6
BCRYPT_ROUNDS == 10

Procs == {"p1", "p2"}

----------------------------------------------------------------------------
(* JavaScript values of a request field: a string, or undefined *)

Undefined == [defined |-> FALSE, value |-> ""]
Str(s) == [defined |-> TRUE, value |-> s]

\* !v for a string-or-undefined v
Falsy(v) == ~v.defined \/ v.value = ""

Min(a, b) == IF a < b THEN a ELSE b

----------------------------------------------------------------------------
(* ObjectId: a number here, a hex string on the wire *)

Oids == 1..MaxOid

\* ObjectId.prototype.toString / toJSON
OidHex(n) == "oid" \o ToString(n)

\* the strings mongoose casts to an ObjectId
IsOidHex(s) == \E n \in Oids : OidHex(n) = s

\* mongoose's cast of a string to ObjectId (defined when IsOidHex(s))
CastOid(s) == CHOOSE n \in Oids : OidHex(n) = s

----------------------------------------------------------------------------
(* bcrypt: a salted one-way hash; compare accepts a password exactly when  *)
(* the hash was made from it                                               *)

BcryptHash(pw, salt) == [rounds |-> BCRYPT_ROUNDS, salt |-> salt, digest |-> <<salt, pw>>]

BcryptCompare_FixedSalt(pw, hash) == hash.digest = <<"salt1", pw>>

BcryptCompare(pw, hash) == hash.digest = <<hash.salt, pw>>

NoHash == [rounds |-> 0, salt |-> "", digest |-> <<"", "">>]

----------------------------------------------------------------------------
(* The User collection *)

NoUser == [id |-> 0, username |-> "", password |-> NoHash, createdAt |-> 0]

\* the positions of the User documents matching { username }
UserMatches(name) == {i \in 1..Len(users) : users[i].username = name}

\* User.findOne({ username }): the first match in natural order, or null
UserFindOne(name) ==
    IF UserMatches(name) = {} THEN NoUser
    ELSE users[CHOOSE i \in UserMatches(name) : \A j \in UserMatches(name) : i <= j]

DuplicateKey_NoIndex(doc) == FALSE

\* the unique index on username rejects the insert (E11000)
DuplicateKey(doc) == UserMatches(doc.username) # {}

----------------------------------------------------------------------------
(* Responses *)

Json(status, body) == [status |-> status, body |-> body]

Fail(status, message) == Json(status, [success |-> FALSE, message |-> message])

NoResp == Fail(0, "")

MsgRequired == "Username and password are required"
MsgShortUsername == "Username must be at least 3 characters"
MsgShortPassword == "Password must be at least 6 characters"
MsgExists == "Username already exists"
MsgCreated == "Account created successfully"
MsgServerError == "Server error"
MsgInvalid == "Invalid username or password"
MsgLoggedIn == "Login successful"
MsgNotAuthenticated == "User not authenticated"
MsgNotFound == "Build not found"
MsgCastError == "Cast to ObjectId failed"

----------------------------------------------------------------------------
(* POST /api/signup *)

Idle == [pc |-> "idle", username |-> "", password |-> "", existed |-> FALSE, newUser |-> NoUser]

SignupReq(username, password, existed) ==
    [op |-> "signup", username |-> username, password |-> password, existed |-> existed]

SignupValidation_OffByOne(username, password) ==
    IF Falsy(username) \/ Falsy(password) THEN Fail(400, MsgRequired)
    ELSE IF Len(username.value) < MIN_USERNAME - 1 THEN Fail(400, MsgShortUsername)
    ELSE IF Len(password.value) < MIN_PASSWORD THEN Fail(400, MsgShortPassword)
    ELSE NoResp

\* the validation at the head of the handler: the response it sends, or
\* NoResp when the input passes
SignupValidation(username, password) ==
    IF Falsy(username) \/ Falsy(password) THEN Fail(400, MsgRequired)
    ELSE IF Len(username.value) < MIN_USERNAME THEN Fail(400, MsgShortUsername)
    ELSE IF Len(password.value) < MIN_PASSWORD THEN Fail(400, MsgShortPassword)
    ELSE NoResp

\* the request arrives: validation answers at once, or User.findOne is
\* issued and the handler waits in slot p
SignupRequest(p, username, password) ==
    /\ procs[p].pc = "idle"
    /\ LET v == SignupValidation(username, password)
       IN IF v # NoResp
          THEN /\ req' = SignupReq(username, password, FALSE)
               /\ resp' = v
               /\ UNCHANGED procs
          ELSE /\ procs' = [procs EXCEPT ![p] =
                              [Idle EXCEPT !.pc = "findOne",
                                           !.username = username.value,
                                           !.password = password.value,
                                           !.existed = UserMatches(username.value) # {}]]
               /\ UNCHANGED <<req, resp>>
    /\ UNCHANGED <<users, builds, nextOid, clock, signedUp, saved>>

SignupFindOne_NoCheck(p) ==
    /\ procs[p].pc = "findOne"
    /\ procs' = [procs EXCEPT ![p].pc = "hash"]
    /\ UNCHANGED <<users, builds, nextOid, clock, req, resp, signedUp, saved>>

\* findOne resolves: answer 400 if the username is taken, else start hashing
SignupFindOne(p) ==
    /\ procs[p].pc = "findOne"
    /\ LET existingUser == UserFindOne(procs[p].username)
       IN IF existingUser # NoUser
          THEN /\ req' = SignupReq(Str(procs[p].username), Str(procs[p].password), procs[p].existed)
               /\ resp' = Fail(400, MsgExists)
               /\ procs' = [procs EXCEPT ![p] = Idle]
          ELSE /\ procs' = [procs EXCEPT ![p].pc = "hash"]
               /\ UNCHANGED <<req, resp>>
    /\ UNCHANGED <<users, builds, nextOid, clock, signedUp, saved>>

\* bcrypt.hash resolves: construct the document (the constructor sets its
\* _id and createdAt) and issue save
SignupHash(p, salt) ==
    /\ procs[p].pc = "hash"
    /\ nextOid <= MaxUserOid
    /\ procs' = [procs EXCEPT ![p].pc = "save",
                              ![p].newUser = [id |-> nextOid,
                                              username |-> procs[p].username,
                                              password |-> BcryptHash(procs[p].password, salt),
                                              createdAt |-> clock]]
    /\ nextOid' = nextOid + 1
    /\ UNCHANGED <<users, builds, clock, req, resp, signedUp, saved>>

\* the insert runs on the store: the unique index throws and the catch block
\* answers 500, or the document is stored and the handler answers 200
SignupSave(p) ==
    /\ procs[p].pc = "save"
    /\ req' = SignupReq(Str(procs[p].username), Str(procs[p].password), procs[p].existed)
    /\ procs' = [procs EXCEPT ![p] = Idle]
    /\ IF DuplicateKey(procs[p].newUser)
       THEN /\ resp' = Fail(500, MsgServerError)
            /\ UNCHANGED <<users, signedUp>>
       ELSE /\ users' = Append(users, procs[p].newUser)
            /\ resp' = Json(200, [success |-> TRUE, message |-> MsgCreated])
            /\ signedUp' = signedUp \cup {[username |-> procs[p].username,
                                           password |-> procs[p].password,
                                           userId |-> procs[p].newUser.id]}
    /\ UNCHANGED <<builds, nextOid, clock, saved>>

----------------------------------------------------------------------------
(* POST /api/login *)

LoginResponse_UserNotFound(username, password) ==
    IF Falsy(username) \/ Falsy(password) THEN Fail(400, MsgRequired)
    ELSE LET user == UserFindOne(username.value)
         IN IF user = NoUser THEN Fail(404, "User not found")
            ELSE IF ~BcryptCompare(password.value, user.password)
                 THEN Fail(401, MsgInvalid)
            ELSE Json(200, [success |-> TRUE,
                            userId |-> OidHex(user.id),
                            username |-> user.username,
                            message |-> MsgLoggedIn])

\* the response of the handler in the current state of the store
LoginResponse(username, password) ==
    IF Falsy(username) \/ Falsy(password) THEN Fail(400, MsgRequired)
    ELSE LET user == UserFindOne(username.value)
         IN IF user = NoUser THEN Fail(401, MsgInvalid)
            ELSE IF ~BcryptCompare(password.value, user.password)
                 THEN Fail(401, MsgInvalid)
            ELSE Json(200, [success |-> TRUE,
                            userId |-> OidHex(user.id),
                            username |-> user.username,
                            message |-> MsgLoggedIn])

Login(username, password) ==
    /\ req' = [op |-> "login", username |-> username, password |-> password]
    /\ resp' = LoginResponse(username, password)
    /\ UNCHANGED <<users, builds, nextOid, clock, procs, signedUp, saved>>

----------------------------------------------------------------------------
(* The Build collection *)

\* the paths BuildSchema declares for an element of bricks
BrickPaths == {"x", "y", "z", "width", "depth", "color", "rotation"}

\* the subdocument mongoose makes of a submitted brick: the declared paths
\* that are present, and an _id of its own
CastBrick(b, id) ==
    [f \in (DOMAIN b \cap BrickPaths) \cup {"_id"} |-> IF f = "_id" THEN id ELSE b[f]]

\* bricks: [ ... ] of the schema: undefined becomes the empty array
CastBricks(bricks, firstId) ==
    IF ~bricks.defined THEN <<>>
    ELSE [i \in 1..Len(bricks.value) |-> CastBrick(bricks.value[i], firstId + i - 1)]

BrickJSON(b) == [f \in DOMAIN b |-> IF f = "_id" THEN OidHex(b[f]) ELSE b[f]]

\* the document as res.json serialises it
BuildJSON(d) ==
    [_id |-> OidHex(d.id), userId |-> OidHex(d.userId), createdAt |-> d.createdAt,
     bricks |-> [i \in 1..Len(d.bricks) |-> BrickJSON(d.bricks[i])]]

----------------------------------------------------------------------------
(* POST /api/save *)

Save(userId, bricks) ==
    /\ req' = [op |-> "save", userId |-> userId, bricks |-> bricks]
    /\ IF Falsy(userId)
       THEN /\ resp' = Fail(401, MsgNotAuthenticated)
            /\ UNCHANGED <<builds, nextOid, saved>>
       ELSE LET n == IF bricks.defined THEN Len(bricks.value) ELSE 0
            IN /\ nextOid + n <= MaxOid
               /\ nextOid' = nextOid + n + 1
               /\ IF ~IsOidHex(userId.value)
                  THEN /\ resp' = Json(500, [error |-> MsgCastError])
                       /\ UNCHANGED <<builds, saved>>
                  ELSE /\ builds' = Append(builds,
                                       [id |-> nextOid,
                                        userId |-> CastOid(userId.value),
                                        createdAt |-> clock,
                                        bricks |-> CastBricks(bricks, nextOid + 1)])
                       /\ resp' = Json(200, [success |-> TRUE, id |-> OidHex(nextOid)])
                       /\ saved' = saved \cup {[id |-> OidHex(nextOid),
                                                userId |-> userId.value,
                                                bricks |-> bricks]}
    /\ UNCHANGED <<users, clock, procs, signedUp>>

----------------------------------------------------------------------------
(* GET /api/history/:userId *)

\* insert d into a sequence sorted by createdAt descending; among equal
\* createdAt the store may put it on either side
RECURSIVE InsertDesc(_, _, _)
InsertDesc(d, s, tieFirst) ==
    IF s = <<>> THEN <<d>>
    ELSE IF d.createdAt > Head(s).createdAt \/ (tieFirst /\ d.createdAt = Head(s).createdAt)
         THEN <<d>> \o s
         ELSE <<Head(s)>> \o InsertDesc(d, Tail(s), tieFirst)

\* .sort({ createdAt: -1 })
RECURSIVE SortDesc(_, _)
SortDesc(s, tieFirst) ==
    IF s = <<>> THEN <<>>
    ELSE InsertDesc(Head(s), SortDesc(Tail(s), tieFirst), tieFirst)

\* Build.find({ userId })
BuildFind(uid) == SelectSeq(builds, LAMBDA d : d.userId = uid)

\* .limit(n)
Limit(s, n) == SubSeq(s, 1, Min(Len(s), n))

History(userId, tieFirst) ==
    /\ req' = [op |-> "history", userId |-> userId]
    /\ resp' = IF Falsy(userId) THEN Fail(401, MsgNotAuthenticated)
               ELSE IF ~IsOidHex(userId.value) THEN Json(500, [error |-> MsgCastError])
               ELSE LET found == Limit(SortDesc(BuildFind(CastOid(userId.value)), tieFirst),
                                       HISTORY_LIMIT)
                    IN Json(200, [i \in 1..Len(found) |-> BuildJSON(found[i])])
    /\ UNCHANGED <<users, builds, nextOid, clock, procs, signedUp, saved>>

----------------------------------------------------------------------------
(* GET /api/load/:id *)

NoBuild == [id |-> 0, userId |-> 0, createdAt |-> 0, bricks |-> <<>>]

BuildFindById_First(id) == IF builds = <<>> THEN NoBuild ELSE builds[1]

\* Build.findById(id) for a castable id
BuildFindById(id) ==
    IF \E i \in 1..Len(builds) : builds[i].id = id
    THEN builds[CHOOSE i \in 1..Len(builds) : builds[i].id = id]
    ELSE NoBuild

Load(id) ==
    /\ req' = [op |-> "load", id |-> id]
    /\ resp' = IF ~IsOidHex(id.value) THEN Json(500, [error |-> MsgCastError])
               ELSE LET build == BuildFindById(CastOid(id.value))
                    IN IF build = NoBuild THEN Fail(404, MsgNotFound)
                       ELSE Json(200, BuildJSON(build))
    /\ UNCHANGED <<users, builds, nextOid, clock, procs, signedUp, saved>>

----------------------------------------------------------------------------
(* The environment *)

\* time passes
Tick ==
    /\ clock < MaxClock
    /\ clock' = clock + 1
    /\ UNCHANGED <<users, builds, nextOid, procs, req, resp, signedUp, saved>>

NoReq == [op |-> "none"]

Init ==
    /\ users = <<>>
    /\ builds = <<>>
    /\ nextOid = 1
    /\ clock = 0
    /\ procs = [p \in Procs |-> Idle]
    /\ req = NoReq
    /\ resp = NoResp
    /\ signedUp = {}
    /\ saved = {}

\* the request fields a client sends
Usernames == {Undefined, Str("ab"), Str("bob"), Str("alice")}
Passwords == {Str(""), Str("12345"), Str("secret"), Str("hunter2")}
Salts == {"salt1", "salt2"}

Brick1 == [x |-> 0, y |-> 1, z |-> 0, width |-> 2, depth |-> 4, color |-> 255, rotation |-> 90]
Brick2 == [x |-> 2, y |-> 0, z |-> 1]
BrickLists == {[defined |-> FALSE, value |-> <<>>],
               [defined |-> TRUE, value |-> <<Brick2>>],
               [defined |-> TRUE, value |-> <<Brick1, Brick2>>]}

\* identifiers in a path: every ObjectId string, and one that is none
IdStrings == {Str(OidHex(n)) : n \in Oids} \cup {Str("abc")}
\* the userId a client sends: absent, no ObjectId, or one of two ObjectIds
UserIds == {Undefined, Str("abc"), Str(OidHex(1)), Str(OidHex(2))}
PathUserIds == UserIds \ {Undefined}

\* the signup handler under concurrent requests
NextSignup ==
    \/ \E p \in Procs, u \in Usernames, pw \in Passwords : SignupRequest(p, u, pw)
    \/ \E p \in Procs : SignupFindOne(p)
    \/ \E p \in Procs, s \in Salts : SignupHash(p, s)
    \/ \E p \in Procs : SignupSave(p)

SpecSignup == Init /\ [][NextSignup]_vars

\* signup and login; the validation of signup is exercised by SpecSignup,
\* so here one rejected username stands for the rejected inputs
AuthUsernames == {Str("ab"), Str("bob"), Str("alice")}
AuthPasswords == {Str("secret"), Str("hunter2")}
LoginPasswords == AuthPasswords \cup {Str("")}

NextAuth ==
    \/ \E p \in Procs, u \in AuthUsernames, pw \in AuthPasswords : SignupRequest(p, u, pw)
    \/ \E p \in Procs : SignupFindOne(p)
    \/ \E p \in Procs, s \in Salts : SignupHash(p, s)
    \/ \E p \in Procs : SignupSave(p)
    \/ \E u \in Usernames, pw \in LoginPasswords : Login(u, pw)

SpecAuth == Init /\ [][NextAuth]_vars

\* the build routes, with one account signing up
NextBuild ==
    \/ SignupRequest("p1", Str("bob"), Str("secret"))
    \/ SignupFindOne("p1")
    \/ SignupHash("p1", "salt1")
    \/ SignupSave("p1")
    \/ \E id \in UserIds, b \in BrickLists : Save(id, b)
    \/ \E id \in PathUserIds, t \in BOOLEAN : History(id, t)
    \/ \E id \in IdStrings : Load(id)
    \/ Tick

SpecBuild == Init /\ [][NextBuild]_vars

\* the whole service
Next ==
    \/ NextSignup
    \/ \E u \in Usernames, pw \in Passwords : Login(u, pw)
    \/ \E id \in UserIds, b \in BrickLists : Save(id, b)
    \/ \E id \in PathUserIds, t \in BOOLEAN : History(id, t)
    \/ \E id \in IdStrings : Load(id)
    \/ Tick

Spec == Init /\ [][Next]_vars

----------------------------------------------------------------------------
(* Properties *)

C2_DuplicateUsername ==
    /\ [](req.op = "signup" /\ req.existed => resp = Fail(400, MsgExists))
    /\ [][\A p \in Procs :
            (procs[p].pc # "idle" /\ procs[p].existed /\ procs'[p] # procs[p])
               => users' = users]_vars

\* C2 witness: the refused signup named an existing username with a password
\* other than the one that account was created with
C2_Witness ==
    /\ req.op = "signup"
    /\ req.existed
    /\ resp = Fail(400, MsgExists)
    /\ \E a \in signedUp : a.username = req.username.value /\ a.password # req.password.value

\* C7: no two User records have the same username.
C7_UniqueUsernames ==
    \A i, j \in 1..Len(users) : users[i].username = users[j].username => i = j

\* C7 witness: two signups for one username both passed the existence check
\* and the insert of the second has been rejected
C7_Witness ==
    /\ req.op = "signup"
    /\ resp = Fail(500, MsgServerError)
    /\ UserMatches(req.username.value) # {}

\* C10 (as claimed): every signup is answered as in some serial execution,
\* with 200 or 400 and never with an internal error.
C10_NoInternalError ==
    req.op = "signup" => resp.status \in {200, 400}

\* C1: a login with the credentials of a successful signup is answered 200
\* with success true and the id of the User record that signup created.
C1_LoginAfterSignup ==
    \A a \in signedUp :
        (/\ req.op = "login"
         /\ req.username = Str(a.username)
         /\ req.password = Str(a.password))
        => /\ resp.status = 200
           /\ resp.body.success
           /\ resp.body.userId = OidHex(a.userId)
           /\ \E i \in 1..Len(users) : users[i].id = a.userId /\ users[i].username = a.username

\* C1 witness: the second account to sign up has logged in
C1_Witness ==
    /\ req.op = "login"
    /\ resp.status = 200
    /\ Len(users) >= 2
    /\ resp.body.userId = OidHex(users[2].id)

SameBricks(out, submitted) ==
    LET sub == IF submitted.defined THEN submitted.value ELSE <<>>
    IN /\ Len(out) = Len(sub)
       /\ \A i \in 1..Len(sub) : \A f \in BrickPaths :
             IF f \in DOMAIN sub[i]
             THEN f \in DOMAIN out[i] /\ out[i][f] = sub[i][f]
             ELSE f \notin DOMAIN out[i]

C5_History ==
    req.op = "history" =>
        LET mine == {i \in 1..Len(builds) : OidHex(builds[i].userId) = req.userId.value}
        IN /\ resp.status = 200
           /\ Len(resp.body) = Min(Cardinality(mine), 10)
           /\ \A k \in 1..Len(resp.body) : resp.body[k].userId = req.userId.value
           /\ \A k \in 1..(Len(resp.body) - 1) :
                 resp.body[k].createdAt >= resp.body[k + 1].createdAt
           /\ \A i \in mine :
                 \/ \E k \in 1..Len(resp.body) : resp.body[k]._id = OidHex(builds[i].id)
                 \/ \A k \in 1..Len(resp.body) : resp.body[k].createdAt >= builds[i].createdAt

\* C8 (as claimed): the userId of every Build is the id of a User.
C8_BuildOwnerExists ==
    \A i \in 1..Len(builds) : \E j \in 1..Len(users) : users[j].id = builds[i].userId

\* C9 (as claimed): a load of an id no Build has is answered 404 'Build not
\* found', and a load of a Build's id returns that Build.
C9_LoadNotFound ==
    req.op = "load" =>
        LET hits == {i \in 1..Len(builds) : OidHex(builds[i].id) = req.id.value}
        IN IF hits = {}
           THEN resp = Fail(404, MsgNotFound)
           ELSE \E i \in hits : resp = Json(200, BuildJSON(builds[i]))

====
